---- MODULE Spec2Model ----
(***************************************************************************)
(* A model of src/src/engine/StockfishEngine.js: the UCI handshake, the    *)
(* promise queue that serialises searches, the handler registry the        *)
(* listener dispatches every engine line to, and the deadline / drain      *)
(* timers of a search.                                                     *)
(*                                                                         *)
(* JavaScript runs one callback at a time.  Every action below is one      *)
(* macrotask (a caller's call, a timer, a command reaching the engine, a   *)
(* line coming back) or one microtask (the `run` callback of _enqueue).    *)
(* Microtasks run before the next macrotask, which MicrotaskPending        *)
(* states.  The object's fields are gathered in a record `s` so that the   *)
(* methods can be written as operators from a heap to a heap.              *)
(***************************************************************************)
EXTENDS Integers, Sequences, FiniteSets, TLC

\* Bounds of the model: how many calls of waitForReady, getBestMove and
\* getAnalysis the caller makes in all, and the largest numMoves it asks for.
MaxCalls == 3
MaxPv == 1

\* The largest rank (multipv) of an info line under AnalysisSpec, where the
\* engine sends any line.
MaxRank == 2

\* The number of requests under LiveSpec, where one handshake is made.
MaxLiveReqs == 2
\* the most moves a GameHistory holds
MaxMoves == 3
\* the highest ply passed to OpeningTracker.update
MaxPly == 3

ReqIds == 1..MaxCalls
InitIds == 1..MaxCalls

VARIABLES
    engine,           \* this.engine is set (initialize succeeded)
    terminated,       \* the binding's terminate() was invoked
    engineReady,      \* this.engineReady
    engineCrashed,    \* this.engineCrashed
    uciOk,            \* this._uciOk
    optionsApplied,   \* this._optionsApplied
    messageHandlers,  \* this.messageHandlers: handler ids, in insertion order
    inits,            \* the waitForReady calls made so far, by number
    reqs,             \* the getBestMove / getAnalysis calls made so far
    nInit,            \* number of waitForReady calls made
    nReq,             \* number of requests made (length of the _queue chain)
    cmds,             \* commands passed to the binding, not yet executed
    search,           \* the request whose "go" the engine is searching, or 0
    eMultiPV,         \* the engine's MultiPV option
    sent,             \* history: how often each command was passed to the binding
    readyokSeen,      \* history: the listener received "readyok"
    settleOrder,      \* history: the requests in the order their promises settled
    config,           \* this.config: threads, hashSize, depth
    configSent,       \* history: the configured values passed to the binding
    bindingThrows,    \* the binding's terminate() throws
    threw,            \* an exception left terminate()
    history,          \* a GameHistory: moves, fens, currentIndex
    game,             \* this.game of the GameManager: the position on the board
    tracker,          \* an OpeningTracker
    ret,              \* history: the last call on them, its inputs and what it returned
    received          \* history of AnalysisSpec: the info lines the engine sent

vars == <<engine, terminated, engineReady, engineCrashed, uciOk, optionsApplied,
          messageHandlers, inits, reqs, nInit, nReq, cmds, search, eMultiPV,
          sent, readyokSeen, settleOrder, config, configSent, bindingThrows,
          threw, history, game, tracker, ret, received>>

\* The StockfishEngine session and the histories kept of it.
engineVars == <<engine, terminated, engineReady, engineCrashed, uciOk,
                optionsApplied, messageHandlers, inits, reqs, nInit, nReq, cmds,
                search, eMultiPV, sent, readyokSeen, settleOrder, config,
                configSent, bindingThrows, threw, received>>

\* ------------------------------------------------------------------ errors
ErrNotRunning == "Chess engine is not running"
ErrNotInitialized == "Engine not initialized"
ErrNotReady == "Engine not ready"
ErrInitCrashed == "Engine crashed during initialization"
ErrInitTimeout == "Engine initialization timeout"
ErrResponseTimeout == "Engine response timeout"
ErrAnalysisTimeout == "Engine analysis timeout"

\* ------------------------------------------------------------- the heap
CmdKinds == {"uci", "isready", "Threads", "Hash", "MultiPV", "position", "go", "stop"}

\* The commands that carry a value of this.config.
ConfigKinds == {"Threads", "Hash", "go"}

\* ENGINE_CONFIG
DEFAULT_DEPTH == 15
Threads == 1
Hash == 128

\* this.config of a session constructed without options.
DefaultConfig == [threads |-> Threads, hashSize |-> Hash, depth |-> DEFAULT_DEPTH]

NoInit == [st |-> "none", err |-> "", timer |-> FALSE]

\* let lastEvaluation = null
NullScore == [type |-> "null", value |-> 0]

NoResult == [bestMove |-> 0, evaluation |-> NullScore, moves |-> <<>>]

NoReq == [kind |-> "none", st |-> "none", err |-> "", numMoves |-> 0,
          timeout |-> FALSE, timedOut |-> FALSE, drainTimer |-> FALSE,
          moves |-> <<>>, lastEvaluation |-> NullScore, result |-> NoResult]

St == [engine |-> engine, terminated |-> terminated, engineReady |-> engineReady,
       engineCrashed |-> engineCrashed, uciOk |-> uciOk,
       optionsApplied |-> optionsApplied, messageHandlers |-> messageHandlers,
       inits |-> inits, reqs |-> reqs, cmds |-> cmds, search |-> search,
       eMultiPV |-> eMultiPV, sent |-> sent, readyokSeen |-> readyokSeen,
       settleOrder |-> settleOrder, config |-> config,
       configSent |-> configSent, bindingThrows |-> bindingThrows,
       threw |-> threw]

\* The engine executes the commands in the order they were sent.  A command
\* that makes it emit no line ("setoption", "position", "go", and "stop" when
\* nothing is being searched) is executed as soon as it is first in line: when
\* the engine executes it cannot be observed, only when its lines arrive.
RECURSIVE engineCatchUp(_)
engineCatchUp(s) ==
    IF ~s.engine \/ s.terminated \/ s.cmds = <<>> THEN s
    ELSE LET cmd == Head(s.cmds)
             rest == [s EXCEPT !.cmds = Tail(@)]
         IN  CASE cmd[1] = "setoption" /\ cmd[2] = "MultiPV" ->
                    engineCatchUp([rest EXCEPT !.eMultiPV = cmd[3]])
               [] cmd[1] = "setoption" /\ cmd[2] # "MultiPV" -> engineCatchUp(rest)
               [] cmd[1] = "position" -> engineCatchUp(rest)
               [] cmd[1] = "go" -> engineCatchUp([rest EXCEPT !.search = cmd[2]])
               [] cmd[1] = "stop" /\ s.search = 0 -> engineCatchUp(rest)
               [] OTHER -> s

CommitHeap(s0) ==
    LET s == engineCatchUp(s0)
    IN  /\ engine' = s.engine
        /\ terminated' = s.terminated
        /\ engineReady' = s.engineReady
        /\ engineCrashed' = s.engineCrashed
        /\ uciOk' = s.uciOk
        /\ optionsApplied' = s.optionsApplied
        /\ messageHandlers' = s.messageHandlers
        /\ inits' = s.inits
        /\ reqs' = s.reqs
        /\ cmds' = s.cmds
        /\ search' = s.search
        /\ eMultiPV' = s.eMultiPV
        /\ sent' = s.sent
        /\ readyokSeen' = s.readyokSeen
        /\ settleOrder' = s.settleOrder
        /\ config' = s.config
        /\ configSent' = s.configSent
        /\ bindingThrows' = s.bindingThrows
        /\ threw' = s.threw
        /\ UNCHANGED <<history, game, tracker, ret>>

Commit(s0) == CommitHeap(s0) /\ UNCHANGED received

Range(q) == {q[i] : i \in 1..Len(q)}

Remove(q, x) == SelectSeq(q, LAMBDA y: y # x)

InitHandler(w) == <<"init", w>>
ReqHandler(r) == <<"req", r>>

Settled(rq) == rq.st \in {"resolved", "rejected"}

\* ------------------------------------------------------------ sendCommand
\* sendCommand throws when the session is crashed or has no engine.
SendThrows(s) == s.engineCrashed \/ ~s.engine

SendError(s) == IF s.engineCrashed THEN ErrNotRunning ELSE ErrNotInitialized

CmdKind(cmd) == IF cmd[1] = "setoption" THEN cmd[2] ELSE cmd[1]

\* The call that does not throw: the command is handed to the binding, which
\* executes it in a later setImmediate callback, in the order of the calls.
sendCommand(s, cmd) ==
    [s EXCEPT !.cmds = Append(@, cmd),
              !.sent[CmdKind(cmd)] = @ + 1,
              !.configSent = IF CmdKind(cmd) \in ConfigKinds
                             THEN @ \cup {<<CmdKind(cmd), cmd[3]>>}
                             ELSE @]

\* try { this.sendCommand(cmd) } catch (e) { /* ignore */ }
TrySend(s, cmd) == IF SendThrows(s) THEN s ELSE sendCommand(s, cmd)

\* this.engine.terminate() of the binding: it ends the worker, or it throws.
engineTerminate(s) ==
    IF s.bindingThrows
    THEN [s EXCEPT !.threw = TRUE]
    ELSE [s EXCEPT !.terminated = TRUE]

\* Mutant of terminate: the call of the binding is not inside try / catch.
terminateWithoutTry(s) ==
    IF ~s.engineCrashed /\ s.engine THEN engineTerminate(s) ELSE s

\* terminate(): the binding is terminated unless the session is crashed; what
\* the binding throws is caught and ignored.
terminate(s) ==
    LET s1 == IF ~s.engineCrashed /\ s.engine THEN engineTerminate(s) ELSE s
    IN  [s1 EXCEPT !.threw = s.threw]

\* ------------------------------------------------------------ waitForReady
\* Mutant of settleInit: the handler stays in the registry.
settleInitKeepsHandler(s, w, outcome, err) ==
    IF Settled(s.inits[w]) THEN s
    ELSE [s EXCEPT !.inits[w] = [st |-> outcome, err |-> err, timer |-> FALSE]]

\* settle(fn) of waitForReady: once only; cleanup() removes the handler and
\* clears the timer before fn resolves or rejects the promise.
settleInit(s, w, outcome, err) ==
    IF Settled(s.inits[w]) THEN s
    ELSE [s EXCEPT !.messageHandlers = Remove(@, InitHandler(w)),
                   !.inits[w] = [st |-> outcome, err |-> err, timer |-> FALSE]]

\* Mutant of applyUciOptions: the _optionsApplied guard is missing.
applyUciOptionsEveryTime(s) ==
    LET s1 == [s EXCEPT !.optionsApplied = TRUE]
    IN  IF SendThrows(s1) THEN s1
        ELSE sendCommand(sendCommand(s1, <<"setoption", "Threads", s.config.threads>>),
                         <<"setoption", "Hash", s.config.hashSize>>)

applyUciOptions(s) ==
    IF s.optionsApplied THEN s
    ELSE LET s1 == [s EXCEPT !.optionsApplied = TRUE]
         IN  IF SendThrows(s1) THEN s1
             ELSE sendCommand(sendCommand(s1, <<"setoption", "Threads", s.config.threads>>),
                              <<"setoption", "Hash", s.config.hashSize>>)

\* Mutant of initOnUciok: "isready" is sent ahead of the options.
initOnUciokIsreadyFirst(s, w) ==
    IF SendThrows(s) THEN settleInit(s, w, "rejected", SendError(s))
    ELSE applyUciOptions(sendCommand(s, <<"isready">>))

\* On "uciok": the options, then "isready"; a throw of sendCommand rejects.
initOnUciok(s, w) ==
    LET s1 == applyUciOptions(s)
    IN  IF SendThrows(s) THEN settleInit(s1, w, "rejected", SendError(s))
        ELSE sendCommand(s1, <<"isready">>)

\* The handler waitForReady registers.
initHandler(s, w, line) ==
    IF s.engineCrashed THEN settleInit(s, w, "rejected", ErrInitCrashed)
    ELSE IF line[1] = "uciok" THEN initOnUciok(s, w)
    ELSE IF line[1] = "readyok"
         THEN settleInit([s EXCEPT !.engineReady = TRUE], w, "resolved", "")
    ELSE s

\* The body of waitForReady's promise, for call number w.
waitForReady(s, w) ==
    IF s.engineCrashed
    THEN [s EXCEPT !.inits[w] = [st |-> "rejected", err |-> ErrInitCrashed,
                                 timer |-> FALSE]]
    ELSE LET s1 == [s EXCEPT !.inits[w] = [st |-> "pending", err |-> "",
                                           timer |-> TRUE],
                             !.messageHandlers = Append(@, InitHandler(w))]
         IN  IF SendThrows(s1) THEN settleInit(s1, w, "rejected", SendError(s1))
             ELSE sendCommand(s1, <<"uci">>)

\* ------------------------------------------------- getBestMove, getAnalysis
TimeoutError(kind) ==
    IF kind = "analysis" THEN ErrAnalysisTimeout ELSE ErrResponseTimeout

\* Mutant of resetMultiPv: nothing is sent.
resetMultiPvNot(s) == s

\* resetMultiPv of getAnalysis: a send whose throw is ignored.
resetMultiPv(s) == TrySend(s, <<"setoption", "MultiPV", 1>>)

\* Mutant of cleanup: the drain timer is not cleared.
cleanupKeepsDrainTimer(s, r) ==
    LET s1 == [s EXCEPT !.messageHandlers = Remove(@, ReqHandler(r)),
                        !.reqs[r].timeout = FALSE]
    IN  IF s.reqs[r].kind = "analysis" THEN resetMultiPv(s1) ELSE s1

\* Mutant of cleanup: the deadline timer is not cleared.
cleanupKeepsTimeout(s, r) ==
    LET s1 == [s EXCEPT !.messageHandlers = Remove(@, ReqHandler(r)),
                        !.reqs[r].drainTimer = FALSE]
    IN  IF s.reqs[r].kind = "analysis" THEN resetMultiPv(s1) ELSE s1

\* Mutant of cleanup: the handler is left in the registry.
cleanupKeepsHandler(s, r) ==
    LET s1 == [s EXCEPT !.reqs[r].timeout = FALSE,
                        !.reqs[r].drainTimer = FALSE]
    IN  IF s.reqs[r].kind = "analysis" THEN resetMultiPv(s1) ELSE s1

\* cleanup() of a request: the handler leaves the registry, both timers are
\* cleared, and getAnalysis resets MultiPV.
cleanup(s, r) ==
    LET s1 == [s EXCEPT !.messageHandlers = Remove(@, ReqHandler(r)),
                        !.reqs[r].timeout = FALSE,
                        !.reqs[r].drainTimer = FALSE]
    IN  IF s.reqs[r].kind = "analysis" THEN resetMultiPv(s1) ELSE s1

\* settle(fn) of a request: once only; cleanup() and then fn, which resolves
\* the promise with `result` or rejects it with `err`.  The closure's moves and
\* lastEvaluation are out of reach from then on (the handler is gone) and are
\* dropped; what was resolved is kept in `result`.
settle(s, r, outcome, err, result) ==
    IF Settled(s.reqs[r]) THEN s
    ELSE LET s1 == cleanup(s, r)
         IN  [s1 EXCEPT !.reqs[r].st = outcome,
                        !.reqs[r].err = err,
                        !.reqs[r].result = result,
                        !.reqs[r].moves = <<>>,
                        !.reqs[r].lastEvaluation = NullScore,
                        !.settleOrder = Append(@, r)]

\* Mutant of bestmoveHandler: a bestmove line resolves the request whether or
\* not its deadline has elapsed.
bestmoveHandlerResolvesLate(s, r, line) ==
    IF line[1] # "bestmove" THEN s
    ELSE settle(s, r, "resolved", "",
                [bestMove |-> line[2], evaluation |-> NullScore, moves |-> <<>>])

\* The handler of getBestMove: only a bestmove line matters.
bestmoveHandler(s, r, line) ==
    IF line[1] # "bestmove" THEN s
    ELSE IF s.reqs[r].timedOut
         THEN settle(s, r, "rejected", ErrResponseTimeout, NoResult)
         ELSE settle(s, r, "resolved", "",
                     [bestMove |-> line[2], evaluation |-> NullScore, moves |-> <<>>])

\* A line of the engine is the sequence of its words: line.split(" ").  The
\* numbers in it are decimal numerals.
Decimal == <<"0", "1", "2", "3", "4", "5", "6", "7", "8", "9">>

Numeral(n) == Decimal[n + 1]

parseInt(word) == CHOOSE n \in 0..9 : Decimal[n + 1] = word

\* return (result.move && result.score) ? result : null
NullRecord == [multipv |-> 0, score |-> NullScore, move |-> "", depth |-> 0]

\* The loop of parseInfoLine from word i on (i counts from 1; parts[1] is
\* "info").  A word is looked at even when it was the value of the one before.
RECURSIVE parseFrom(_, _, _)
parseFrom(parts, i, result) ==
    IF i > Len(parts) THEN result
    ELSE parseFrom(parts, i + 1,
           IF parts[i] = "multipv" /\ i + 1 <= Len(parts)
           THEN [result EXCEPT !.multipv = parseInt(parts[i + 1])]
           ELSE IF parts[i] = "depth" /\ i + 1 <= Len(parts)
           THEN [result EXCEPT !.depth = parseInt(parts[i + 1])]
           ELSE IF parts[i] = "score"
           THEN IF i + 2 <= Len(parts) /\ parts[i + 1] \in {"cp", "mate"}
                THEN [result EXCEPT !.score = [type |-> parts[i + 1],
                                               value |-> parseInt(parts[i + 2])]]
                ELSE result
           ELSE IF parts[i] = "pv" /\ i + 1 <= Len(parts)
           THEN [result EXCEPT !.move = parts[i + 1]]
           ELSE result)

\* Mutant of parseInfoLine: a line has no rank unless it says one.
parseInfoLineWithoutRank(parts) ==
    LET result == parseFrom(parts, 1, [multipv |-> 0, score |-> NullScore,
                                       move |-> "", depth |-> 0])
    IN  IF result.move # "" /\ result.score # NullScore THEN result
        ELSE NullRecord

\* Mutant of parseInfoLine: the result is returned whether or not the line
\* gave a move and a score.
parseInfoLineWithoutTest(parts) ==
    parseFrom(parts, 1, [multipv |-> 1, score |-> NullScore,
                         move |-> "", depth |-> 0])

\* parseInfoLine(line): multipv is 1 unless the line says otherwise; null
\* unless the line gave both a move and a score.
parseInfoLine(parts) ==
    LET result == parseFrom(parts, 1, [multipv |-> 1, score |-> NullScore,
                                       move |-> "", depth |-> 0])
    IN  IF result.move # "" /\ result.score # NullScore THEN result
        ELSE NullRecord

\* line.includes("pv"): of the words of an info line, "pv" and "multipv"
\* contain it.
includesPv(line) == \E i \in 1..Len(line) : line[i] \in {"pv", "multipv"}

\* Mutant of upsert: a record of a rank already in the list is dropped.
upsertKeepsFirst(moves, a) ==
    IF \E i \in 1..Len(moves) : moves[i].multipv = a.multipv
    THEN moves
    ELSE Append(moves, a)

\* moves[existingIndex] = analysis, or moves.push(analysis).
upsert(moves, a) ==
    IF \E i \in 1..Len(moves) : moves[i].multipv = a.multipv
    THEN [i \in 1..Len(moves) |->
             IF i = (CHOOSE j \in 1..Len(moves) :
                        /\ moves[j].multipv = a.multipv
                        /\ \A k \in 1..(j - 1) : moves[k].multipv # a.multipv)
             THEN a ELSE moves[i]]
    ELSE Append(moves, a)

RECURSIVE insertByMultipv(_, _)
insertByMultipv(sorted, a) ==
    IF sorted = <<>> THEN <<a>>
    ELSE IF a.multipv < Head(sorted).multipv THEN <<a>> \o sorted
    ELSE <<Head(sorted)>> \o insertByMultipv(Tail(sorted), a)

\* Mutant of sortByMultipv: the list is left in the order of arrival.
sortByMultipvNot(moves) == moves

\* moves.sort((a, b) => a.multipv - b.multipv): a stable sort.
RECURSIVE sortByMultipv(_)
sortByMultipv(moves) ==
    IF moves = <<>> THEN <<>>
    ELSE insertByMultipv(sortByMultipv(SubSeq(moves, 1, Len(moves) - 1)),
                         moves[Len(moves)])

\* Mutant of analysisHandler: a bestmove line is ignored while no candidate
\* record has been stored.
analysisHandlerNeedsRecord(s, r, line) ==
    IF line[1] = "info" /\ includesPv(line)
    THEN LET analysis == parseInfoLine(line)
         IN  IF analysis = NullRecord THEN s
             ELSE [s EXCEPT !.reqs[r].moves = upsert(@, analysis),
                            !.reqs[r].lastEvaluation =
                                IF analysis.multipv = 1 THEN analysis.score
                                ELSE @]
    ELSE IF line[1] # "bestmove" \/ s.reqs[r].moves = <<>> THEN s
    ELSE LET s1 == [s EXCEPT !.reqs[r].moves = sortByMultipv(@)]
         IN  IF s1.reqs[r].timedOut
             THEN settle(s1, r, "rejected", ErrAnalysisTimeout, NoResult)
             ELSE settle(s1, r, "resolved", "",
                         [bestMove |-> line[2],
                          evaluation |-> s1.reqs[r].lastEvaluation,
                          moves |-> s1.reqs[r].moves])

\* The handler of getAnalysis.
analysisHandler(s, r, line) ==
    IF line[1] = "info" /\ includesPv(line)
    THEN LET analysis == parseInfoLine(line)
         IN  IF analysis = NullRecord THEN s
             ELSE [s EXCEPT !.reqs[r].moves = upsert(@, analysis),
                            !.reqs[r].lastEvaluation =
                                IF analysis.multipv = 1 THEN analysis.score
                                ELSE @]
    ELSE IF line[1] # "bestmove" THEN s
    ELSE LET s1 == [s EXCEPT !.reqs[r].moves = sortByMultipv(@)]
         IN  IF s1.reqs[r].timedOut
             THEN settle(s1, r, "rejected", ErrAnalysisTimeout, NoResult)
             ELSE settle(s1, r, "resolved", "",
                         [bestMove |-> line[2],
                          evaluation |-> s1.reqs[r].lastEvaluation,
                          moves |-> s1.reqs[r].moves])

\* The promise executor of a request: the deadline timer, the commands, the
\* handler; a throw of sendCommand rejects the request.
task(s, r) ==
    LET rq == s.reqs[r]
        s1 == [s EXCEPT !.reqs[r].st = "running", !.reqs[r].timeout = TRUE]
        s2 == IF rq.kind = "analysis"
              THEN sendCommand(s1, <<"setoption", "MultiPV", rq.numMoves>>)
              ELSE s1
        s3 == sendCommand(sendCommand(s2, <<"position", r>>),
                          <<"go", r, s.config.depth>>)
    IN  IF SendThrows(s1) THEN settle(s1, r, "rejected", SendError(s1), NoResult)
        ELSE [s3 EXCEPT !.messageHandlers = Append(@, ReqHandler(r))]

\* A throw of run rejects the promise p of _enqueue: the task was never
\* called, so there is no settle and no cleanup of it.
rejectRun(s, r, err) ==
    [s EXCEPT !.reqs[r].st = "rejected",
              !.reqs[r].err = err,
              !.settleOrder = Append(@, r)]

\* Mutant of run: a rejected predecessor's error is passed down the chain
\* (then(run) without the rejection callback).
runPropagatesFailure(s, r) ==
    IF r > 1 /\ s.reqs[r - 1].st = "rejected"
    THEN rejectRun(s, r, s.reqs[r - 1].err)
    ELSE IF s.engineCrashed THEN rejectRun(s, r, ErrNotRunning)
    ELSE IF ~s.engine THEN rejectRun(s, r, ErrNotInitialized)
    ELSE IF ~s.engineReady THEN rejectRun(s, r, ErrNotReady)
    ELSE task(s, r)

\* Mutant of run: the crashed flag is tested last.
runChecksCrashedLast(s, r) ==
    IF ~s.engine THEN rejectRun(s, r, ErrNotInitialized)
    ELSE IF ~s.engineReady THEN rejectRun(s, r, ErrNotReady)
    ELSE IF s.engineCrashed THEN rejectRun(s, r, ErrNotRunning)
    ELSE task(s, r)

\* Mutant of run: the readiness test is missing.
runWithoutReadyTest(s, r) ==
    IF s.engineCrashed THEN rejectRun(s, r, ErrNotRunning)
    ELSE IF ~s.engine THEN rejectRun(s, r, ErrNotInitialized)
    ELSE task(s, r)

\* run of _enqueue: the three preconditions, then the task.
run(s, r) ==
    IF s.engineCrashed THEN rejectRun(s, r, ErrNotRunning)
    ELSE IF ~s.engine THEN rejectRun(s, r, ErrNotInitialized)
    ELSE IF ~s.engineReady THEN rejectRun(s, r, ErrNotReady)
    ELSE task(s, r)

\* Mutant of QueueTurn: run is called without waiting for the chain.
QueueTurnNoWait(s, r) == s.reqs[r].st = "queued"

\* Mutant of QueueTurn: the chain moves on when the earlier task has started,
\* not when its promise has settled.
QueueTurnAfterStart(s, r) ==
    /\ s.reqs[r].st = "queued"
    /\ \A j \in 1..(r - 1) : s.reqs[j].st # "queued"

\* Mutant of QueueTurn: this._queue.then(run).catch(run), which calls run a
\* second time for a request whose first run was rejected.
QueueTurnRetriesRejected(s, r) ==
    /\ s.reqs[r].st \in {"queued", "rejected"}
    /\ \A j \in 1..(r - 1) : Settled(s.reqs[j])

\* p = this._queue.then(run, run): run of request r is called once the
\* promise of every earlier request has settled.
QueueTurn(s, r) ==
    /\ s.reqs[r].st = "queued"
    /\ \A j \in 1..(r - 1) : Settled(s.reqs[j])

\* Mutant of onTimeout: the request is rejected at the deadline, without
\* waiting for the bestmove line that answers "stop".
onTimeoutRejectsAtOnce(s, r) ==
    LET s1 == [s EXCEPT !.reqs[r].timeout = FALSE, !.reqs[r].timedOut = TRUE]
        s2 == TrySend(s1, <<"stop">>)
    IN  settle(s2, r, "rejected", TimeoutError(s.reqs[r].kind), NoResult)

\* Mutant of onTimeout: the deadline starts the drain timer without sending
\* "stop".
onTimeoutWithoutStop(s, r) ==
    [s EXCEPT !.reqs[r].timeout = FALSE,
              !.reqs[r].timedOut = TRUE,
              !.reqs[r].drainTimer = TRUE]

\* Mutant of onTimeout: the deadline sends "stop" and starts no drain timer.
onTimeoutWithoutDrainTimer(s, r) ==
    LET s1 == [s EXCEPT !.reqs[r].timeout = FALSE, !.reqs[r].timedOut = TRUE]
    IN  TrySend(s1, <<"stop">>)

\* The deadline timer of a request.
onTimeout(s, r) ==
    LET s1 == [s EXCEPT !.reqs[r].timeout = FALSE, !.reqs[r].timedOut = TRUE]
        s2 == TrySend(s1, <<"stop">>)
    IN  [s2 EXCEPT !.reqs[r].drainTimer = TRUE]

\* Mutant of onDrain: the drain timer rejects the request without marking the
\* session crashed.
onDrainWithoutCrash(s, r) ==
    LET s1 == [s EXCEPT !.reqs[r].drainTimer = FALSE]
        s2 == terminate(s1)
    IN  settle(s2, r, "rejected", TimeoutError(s.reqs[r].kind), NoResult)

\* Mutant of onDrain: the drain timer marks the session crashed and leaves the
\* request pending.
onDrainLeavesPending(s, r) ==
    LET s1 == [s EXCEPT !.reqs[r].drainTimer = FALSE, !.engineCrashed = TRUE]
    IN  terminate(s1)

\* The drain timer: no bestmove came after "stop".
onDrain(s, r) ==
    LET s1 == [s EXCEPT !.reqs[r].drainTimer = FALSE, !.engineCrashed = TRUE]
        s2 == terminate(s1)
    IN  settle(s2, r, "rejected", TimeoutError(s.reqs[r].kind), NoResult)

\* ---------------------------------------------------------------- listener
handler(s, h, line) ==
    IF h[1] = "init" THEN initHandler(s, h[2], line)
    ELSE IF s.reqs[h[2]].kind = "analysis" THEN analysisHandler(s, h[2], line)
    ELSE bestmoveHandler(s, h[2], line)

\* for (const handler of this.messageHandlers.values()) handler(line): a
\* handler deleted by an earlier one in the same pass is not called.
RECURSIVE dispatch(_, _, _)
dispatch(s, hs, line) ==
    IF hs = <<>> THEN s
    ELSE dispatch(IF Head(hs) \in Range(s.messageHandlers)
                  THEN handler(s, Head(hs), line) ELSE s,
                  Tail(hs), line)

listener(s, line) ==
    LET s1 == [s EXCEPT !.uciOk = @ \/ line[1] = "uciok",
                        !.readyokSeen = @ \/ line[1] = "readyok"]
    IN  dispatch(s1, s1.messageHandlers, line)

\* ------------------------------------------------------------------ state
\* What is known of the info lines sent so far: whether their number is odd,
\* how the last one was made (see InfoLine), and for each rank the record of
\* the last line that had a score and a move.  A line without "multipv" is a
\* line for rank 1.
NoLines == [odd |-> FALSE,
            last |-> [k |-> 0, scoreType |-> "none", withPv |-> FALSE],
            byRank |-> [k \in 1..MaxRank |-> NullRecord]]

\* ------------------------------------------------------------ GameHistory
\* A move and a position are numbers here; null, where a FEN is expected, is
\* NullFen.
NullFen == -1

Moves == {1, 2}
Fens == {1, 2}

\* constructor
NewHistory == [moves |-> <<>>, fens |-> <<>>, currentIndex |-> -1]

canUndo(h) == h.currentIndex >= 0

canRedo(h) == h.currentIndex < Len(h.moves) - 1

getMoveCount(h) == Len(h.moves)

\* Mutant of addMove: the moves after the current index are kept.
addMoveKeepsFuture(h, move, fen) ==
    [h EXCEPT !.moves = Append(@, move),
              !.fens = Append(@, fen),
              !.currentIndex = @ + 1]

addMove(h, move, fen) ==
    LET h1 == IF h.currentIndex < Len(h.moves) - 1
              THEN [h EXCEPT !.moves = SubSeq(@, 1, h.currentIndex + 1),
                             !.fens = SubSeq(@, 1, h.currentIndex + 1)]
              ELSE h
    IN  [h1 EXCEPT !.moves = Append(@, move),
                   !.fens = Append(@, fen),
                   !.currentIndex = @ + 1]

\* Mutant of undo: the FEN of the move undone is returned.
undoReturnsUndone(h) ==
    IF ~canUndo(h) THEN [history |-> h, value |-> NullFen]
    ELSE [history |-> [h EXCEPT !.currentIndex = @ - 1],
          value |-> h.fens[h.currentIndex + 1]]

\* undo(): the history afterwards and the value returned.
undo(h) ==
    IF ~canUndo(h) THEN [history |-> h, value |-> NullFen]
    ELSE LET h1 == [h EXCEPT !.currentIndex = @ - 1]
         IN  [history |-> h1,
              value |-> IF h1.currentIndex >= 0
                        THEN h1.fens[h1.currentIndex + 1]
                        ELSE NullFen]

\* redo(): the history afterwards and the value returned.
redo(h) ==
    IF ~canRedo(h) THEN [history |-> h, value |-> NullFen]
    ELSE LET h1 == [h EXCEPT !.currentIndex = @ + 1]
         IN  [history |-> h1, value |-> h1.fens[h1.currentIndex + 1]]

\* Mutant of clear: currentIndex is left as it is.
clearKeepsIndex(h) == [h EXCEPT !.moves = <<>>, !.fens = <<>>]

clear(h) == NewHistory

\* ------------------------------------------------------------ GameManager
\* The position of a new Chess().
StartingFen == 0

\* A move string is one of Moves, which chess.js accepts in every position,
\* or NoMove, which it rejects.
NoMove == 0
MoveStrings == Moves \cup {NoMove}

\* game.move(moveString) succeeds.
Legal(fen, moveString) == moveString \in Moves

\* game.fen() after game.move(moveString): a different position for every
\* different line of play.
Play(fen, moveString) == fen * (Cardinality(Moves) + 1) + moveString

\* makeMove: an invalid move throws before anything is recorded.
makeMove(gm, moveString) ==
    IF ~Legal(gm.game, moveString) THEN [gm |-> gm, ok |-> FALSE]
    ELSE LET fen == Play(gm.game, moveString)
         IN  [gm |-> [game |-> fen,
                      history |-> addMove(gm.history, moveString, fen)],
              ok |-> TRUE]

\* Mutant of GameManager.undo: null from the history always means false.
managerUndoWithoutReset(gm) ==
    LET u == undo(gm.history)
        gm1 == [gm EXCEPT !.history = u.history]
    IN  IF u.value = NullFen THEN [gm |-> gm1, ok |-> FALSE]
        ELSE [gm |-> [gm1 EXCEPT !.game = u.value], ok |-> TRUE]

\* GameManager.undo(): the manager afterwards and the value returned.
managerUndo(gm) ==
    LET u == undo(gm.history)
        gm1 == [gm EXCEPT !.history = u.history]
    IN  IF u.value = NullFen
        THEN IF u.history.currentIndex = -1 /\ getMoveCount(u.history) > 0
             THEN [gm |-> [gm1 EXCEPT !.game = StartingFen], ok |-> TRUE]
             ELSE [gm |-> gm1, ok |-> FALSE]
        ELSE [gm |-> [gm1 EXCEPT !.game = u.value], ok |-> TRUE]

\* GameManager.redo(): the manager afterwards and the value returned.
managerRedo(gm) ==
    LET u == redo(gm.history)
        gm1 == [gm EXCEPT !.history = u.history]
    IN  IF u.value = NullFen THEN [gm |-> gm1, ok |-> FALSE]
        ELSE [gm |-> [gm1 EXCEPT !.game = u.value], ok |-> TRUE]

\* ---------------------------------------------------------- OpeningTracker
\* An opening is its id; null is NoOpening.
NoOpening == 0
Openings == {1, 2, 3}

\* lastAnnouncementKey `${event}:${openingId}:${ply}`, and null.
NoKey == <<"null", NoOpening, 0>>

NewTracker == [currentOpening |-> NoOpening, lastKnownOpening |-> NoOpening,
               lastAnnouncementKey |-> NoKey, status |-> "unknown"]

\* Mutant of update: every detection with an opening current is "refined".
updateRefinesAlways(t, detected, ply) ==
    LET event == IF detected # NoOpening
                 THEN IF t.currentOpening = NoOpening THEN "detected" ELSE "refined"
                 ELSE IF t.currentOpening # NoOpening THEN "left_line"
                 ELSE "unchanged"
        t1 == IF detected # NoOpening
              THEN [t EXCEPT !.currentOpening = detected,
                             !.lastKnownOpening = detected,
                             !.status = "known"]
              ELSE IF t.currentOpening # NoOpening
              THEN [t EXCEPT !.lastKnownOpening = t.currentOpening,
                             !.currentOpening = NoOpening,
                             !.status = "out_of_book"]
              ELSE IF t.status # "out_of_book"
              THEN [t EXCEPT !.status = "unknown"]
              ELSE t
        openingId == IF t1.currentOpening # NoOpening THEN t1.currentOpening
                     ELSE t1.lastKnownOpening
        t2 == IF event # "unchanged"
              THEN [t1 EXCEPT !.lastAnnouncementKey = <<event, openingId, ply>>]
              ELSE t1
    IN  [tracker |-> t2, event |-> event]

\* update(fen, ply), given what this.detector.detect(fen, ply) returns: the
\* tracker afterwards and the event returned.
update(t, detected, ply) ==
    LET event == IF detected # NoOpening
                 THEN IF t.currentOpening = NoOpening THEN "detected"
                      ELSE IF t.currentOpening # detected THEN "refined"
                      ELSE "unchanged"
                 ELSE IF t.currentOpening # NoOpening THEN "left_line"
                 ELSE "unchanged"
        t1 == IF detected # NoOpening
              THEN [t EXCEPT !.currentOpening = detected,
                             !.lastKnownOpening = detected,
                             !.status = "known"]
              ELSE IF t.currentOpening # NoOpening
              THEN [t EXCEPT !.lastKnownOpening = t.currentOpening,
                             !.currentOpening = NoOpening,
                             !.status = "out_of_book"]
              ELSE IF t.status # "out_of_book"
              THEN [t EXCEPT !.status = "unknown"]
              ELSE t
        openingId == IF t1.currentOpening # NoOpening THEN t1.currentOpening
                     ELSE t1.lastKnownOpening
        t2 == IF event # "unchanged"
              THEN [t1 EXCEPT !.lastAnnouncementKey = <<event, openingId, ply>>]
              ELSE t1
    IN  [tracker |-> t2, event |-> event]

\* Nothing has been called yet.
NoRet == [op |-> "none", value |-> NullFen, ok |-> FALSE, event |-> "none",
          before |-> "none",
          move |-> NoMove, fen |-> StartingFen, discarded |-> 0,
          detected |-> NoOpening, ply |-> 0]

\* The session after construction, with this.config c and a binding whose
\* terminate() throws or not.
Constructed(c, throws) ==
    /\ engine = FALSE
    /\ terminated = FALSE
    /\ engineReady = FALSE
    /\ engineCrashed = FALSE
    /\ uciOk = FALSE
    /\ optionsApplied = FALSE
    /\ messageHandlers = <<>>
    /\ inits = [w \in InitIds |-> NoInit]
    /\ reqs = [r \in ReqIds |-> NoReq]
    /\ nInit = 0
    /\ nReq = 0
    /\ cmds = <<>>
    /\ search = 0
    /\ eMultiPV = 1
    /\ sent = [k \in CmdKinds |-> 0]
    /\ readyokSeen = FALSE
    /\ settleOrder = <<>>
    /\ config = c
    /\ configSent = {}
    /\ bindingThrows = throws
    /\ threw = FALSE
    /\ received = NoLines
    /\ history = NewHistory
    /\ game = StartingFen
    /\ tracker = NewTracker
    /\ ret = NoRet

Init == Constructed(DefaultConfig, FALSE)

\* A `run` callback of the queue is due: it runs before any timer, call or line.
MicrotaskPending == \E r \in ReqIds : QueueTurn(St, r)

\* ------------------------------------------------------- the caller's calls
\* Mutant of InitializeOk: a successful initialize() clears the crashed flag.
InitializeOkClearsCrashed ==
    /\ ~(\E r \in ReqIds : QueueTurn(St, r))
    /\ ~engine
    /\ Commit([St EXCEPT !.engine = TRUE, !.engineCrashed = FALSE])
    /\ UNCHANGED <<nInit, nReq>>

\* initialize() succeeds: the engine and its listener are set.
InitializeOk ==
    /\ ~MicrotaskPending
    /\ ~engine
    /\ Commit([St EXCEPT !.engine = TRUE])
    /\ UNCHANGED <<nInit, nReq>>

\* initialize() fails: the catch block marks the session crashed.
InitializeFail ==
    /\ ~MicrotaskPending
    /\ ~engine
    /\ Commit([St EXCEPT !.engineCrashed = TRUE])
    /\ UNCHANGED <<nInit, nReq>>

WaitForReadyCall ==
    /\ ~MicrotaskPending
    /\ nInit + nReq < MaxCalls
    /\ nInit' = nInit + 1
    /\ Commit(waitForReady(St, nInit + 1))
    /\ UNCHANGED nReq

\* _enqueue: the request joins the promise chain; run is called later.
enqueue(s, r, kind, numMoves) ==
    [s EXCEPT !.reqs[r] = [NoReq EXCEPT !.kind = kind, !.st = "queued",
                                        !.numMoves = numMoves]]

GetBestMoveCall ==
    /\ ~MicrotaskPending
    /\ nInit + nReq < MaxCalls
    /\ nReq' = nReq + 1
    /\ Commit(enqueue(St, nReq + 1, "bestmove", 0))
    /\ UNCHANGED nInit

GetAnalysisCall ==
    /\ ~MicrotaskPending
    /\ nInit + nReq < MaxCalls
    /\ nReq' = nReq + 1
    /\ \E n \in 1..MaxPv : Commit(enqueue(St, nReq + 1, "analysis", n))
    /\ UNCHANGED nInit

TerminateCall ==
    /\ ~MicrotaskPending
    /\ Commit(terminate(St))
    /\ UNCHANGED <<nInit, nReq>>

\* ------------------------------------------------- microtasks and timers
RunNext ==
    \E r \in ReqIds :
        /\ QueueTurn(St, r)
        /\ Commit(run(St, r))
        /\ UNCHANGED <<nInit, nReq>>

\* Mutant of InitTimeout: an initialization timeout marks the session crashed.
InitTimeoutCrashes ==
    \E w \in InitIds :
        /\ ~MicrotaskPending
        /\ inits[w].timer
        /\ Commit(settleInit([St EXCEPT !.engineCrashed = TRUE], w,
                             "rejected", ErrInitTimeout))
        /\ UNCHANGED <<nInit, nReq>>

InitTimeout ==
    \E w \in InitIds :
        /\ ~MicrotaskPending
        /\ inits[w].timer
        /\ Commit(settleInit(St, w, "rejected", ErrInitTimeout))
        /\ UNCHANGED <<nInit, nReq>>

Timeout ==
    \E r \in ReqIds :
        /\ ~MicrotaskPending
        /\ reqs[r].timeout
        /\ Commit(onTimeout(St, r))
        /\ UNCHANGED <<nInit, nReq>>

Drain ==
    \E r \in ReqIds :
        /\ ~MicrotaskPending
        /\ reqs[r].drainTimer
        /\ Commit(onDrain(St, r))
        /\ UNCHANGED <<nInit, nReq>>

\* ------------------------------------------------------------- the engine
\* The engine is a UCI engine: it answers "uci" with "uciok" and "isready"
\* with "readyok", and ends every search with one bestmove line, of itself or
\* on "stop".  It may take arbitrarily long, or for ever, to do any of this.
EngineAlive == engine /\ ~terminated

\* The first command in line is executed and its line reaches the listener.
EngineCommand ==
    /\ ~MicrotaskPending
    /\ EngineAlive
    /\ cmds # <<>>
    /\ LET cmd == Head(cmds)
           s0 == [St EXCEPT !.cmds = Tail(@)]
       IN  CASE cmd[1] = "uci" -> Commit(listener(s0, <<"uciok">>))
             [] cmd[1] = "isready" -> Commit(listener(s0, <<"readyok">>))
             [] cmd[1] = "stop" /\ search # 0 ->
                  Commit(listener([s0 EXCEPT !.search = 0], <<"bestmove", search>>))
             [] OTHER -> Commit(St)
    /\ UNCHANGED <<nInit, nReq>>

\* The words of a progress line: "info depth 1", then "multipv k" unless k is
\* 0, then "score cp v" or "score mate v", then "pv e2e4" if withPv.  With
\* scoreType "cut" the line was cut short after "score cp", which then comes
\* last; with "none" it has no score.
InfoLine(k, scoreType, v, withPv) ==
    <<"info", "depth", "1">>
    \o (IF k = 0 THEN <<>> ELSE <<"multipv", Numeral(k)>>)
    \o (IF scoreType \in {"cp", "mate"}
        THEN <<"score", scoreType, Numeral(v)>> ELSE <<>>)
    \o (IF withPv THEN <<"pv", "e2e4">> ELSE <<>>)
    \o (IF scoreType = "cut" THEN <<"score", "cp">> ELSE <<>>)

\* A progress line of the running search, for one of the ranks asked for: with
\* a score and a move, or with neither.  The score names the search.
EngineInfo ==
    /\ ~MicrotaskPending
    /\ EngineAlive
    /\ search # 0
    /\ \E k \in 1..eMultiPV, complete \in BOOLEAN :
           Commit(listener(St, InfoLine(k, IF complete THEN "cp" ELSE "none",
                                        search, complete)))
    /\ UNCHANGED <<nInit, nReq>>

\* The record an info line made by InfoLine(k, scoreType, v, TRUE) stands for.
RecordOf(k, scoreType, v) ==
    [multipv |-> IF k = 0 THEN 1 ELSE k,
     score |-> [type |-> scoreType, value |-> v],
     move |-> "e2e4",
     depth |-> 1]

\* Any info line at all reaches the listener during a search: of any rank up
\* to MaxRank or without one, with a score in centipawns or in moves to mate,
\* without a score or cut short, with or without a move.
AnyInfoLine ==
    /\ ~MicrotaskPending
    /\ EngineAlive
    /\ search # 0
    /\ \E k \in 0..MaxRank, scoreType \in {"cp", "mate", "none", "cut"},
          withPv \in BOOLEAN :
           /\ CommitHeap(listener(St, InfoLine(k, scoreType, search, withPv)))
           /\ received' =
                  [odd |-> ~received.odd,
                   last |-> [k |-> k, scoreType |-> scoreType, withPv |-> withPv],
                   byRank |->
                       IF withPv /\ scoreType \in {"cp", "mate"}
                       THEN [received.byRank EXCEPT
                                ![IF k = 0 THEN 1 ELSE k] =
                                    RecordOf(k, scoreType, search)]
                       ELSE received.byRank]
    /\ UNCHANGED <<nInit, nReq>>

\* The search ends of itself.
EngineBestmove ==
    /\ ~MicrotaskPending
    /\ EngineAlive
    /\ search # 0
    /\ Commit(listener([St EXCEPT !.search = 0], <<"bestmove", search>>))
    /\ UNCHANGED <<nInit, nReq>>

Next ==
    \/ InitializeOk
    \/ InitializeFail
    \/ WaitForReadyCall
    \/ GetBestMoveCall
    \/ GetAnalysisCall
    \/ TerminateCall
    \/ RunNext
    \/ InitTimeout
    \/ Timeout
    \/ Drain
    \/ EngineCommand
    \/ EngineInfo
    \/ EngineBestmove

Spec == Init /\ [][Next]_vars

\* One session with one handshake and one request, whose engine sends any info
\* line during the search.
OneHandshake == nInit = 0 /\ WaitForReadyCall

OneBestMove == nReq = 0 /\ GetBestMoveCall

OneAnalysis == nReq = 0 /\ GetAnalysisCall

NextAnalysis ==
    \/ InitializeOk
    \/ OneHandshake
    \/ OneBestMove
    \/ OneAnalysis
    \/ RunNext
    \/ InitTimeout
    \/ Timeout
    \/ Drain
    \/ EngineCommand
    \/ AnyInfoLine
    \/ EngineBestmove

AnalysisSpec == Init /\ [][NextAnalysis]_vars

\* ----------------------------------------------------------------- claims
Running(r) == reqs[r].st = "running"

Started(r) == reqs[r].st \in {"running", "resolved", "rejected"}

SearchHandlers == {i \in 1..Len(messageHandlers) : messageHandlers[i][1] = "req"}

HandshakeHandlers == {i \in 1..Len(messageHandlers) : messageHandlers[i][1] = "init"}

TimeoutErrors == {ErrResponseTimeout, ErrAnalysisTimeout}

\* C1: at most one request's task runs at any instant, and a "go" command is
\* sent only in a step that starts from a state in which no request is running
\* and every earlier request has settled.
C1_OneAtATime ==
    Cardinality({r \in ReqIds : Running(r)}) <= 1

C1_GoOnlyWhenIdle ==
    sent'["go"] # sent["go"] =>
        /\ \A r \in ReqIds : ~Running(r)
        /\ \A r \in ReqIds : Running(r)' /\ ~Running(r) =>
               \A j \in 1..(r - 1) : Settled(reqs[j])

\* C1, as checked: one task at a time in every state, and "go" only when idle
\* in every step.
C1_Serialized == []C1_OneAtATime /\ [][C1_GoOnlyWhenIdle]_vars

\* Two requests were issued concurrently: one runs, the other waits.
C1_Witness ==
    \E r \in ReqIds : r < MaxCalls /\ Running(r) /\ reqs[r + 1].st = "queued"

\* C2: requests settle in the order they were enqueued, and a request has
\* started only if every request enqueued before it has settled.
C2_FifoOrder ==
    /\ \A i \in 1..Len(settleOrder) : settleOrder[i] = i
    /\ \A r \in ReqIds : Started(r) => \A j \in 1..(r - 1) : Settled(reqs[j])

\* A rejected request followed by a resolved one, settled in that order.
C2_Witness ==
    /\ Len(settleOrder) = 2
    /\ reqs[1].st = "rejected"
    /\ reqs[2].st = "resolved"

\* C3: a rejected predecessor does not block the queue.  A queued request
\* whose predecessors have settled is due at once, and when its turn comes
\* after a rejected predecessor on a session that is initialised, ready and
\* not crashed, it starts running instead of being rejected.
C3_NextIsDue ==
    \A r \in ReqIds :
        (reqs[r].st = "queued" /\ \A j \in 1..(r - 1) : Settled(reqs[j]))
            => ENABLED RunNext

C3_RunsAfterFailure ==
    \A r \in ReqIds :
        (/\ r > 1
         /\ reqs[r - 1].st = "rejected"
         /\ reqs[r].st = "queued"
         /\ reqs'[r].st # "queued"
         /\ ~engineCrashed /\ engine /\ engineReady)
            => Running(r)'

\* C3, as checked: the next request is always due, and it runs after a
\* rejected predecessor.
C3_FailureDoesNotBlock == []C3_NextIsDue /\ [][C3_RunsAfterFailure]_vars

\* The first request was rejected, the session is not crashed, and the
\* second one runs or has resolved.
C3_Witness ==
    /\ reqs[1].st = "rejected"
    /\ ~engineCrashed
    /\ reqs[2].st \in {"running", "resolved"}

\* C4: from a crashed session on, no command is passed to the binding, a
\* queued request that gets its turn is rejected with "Chess engine is not
\* running", and a waitForReady that is called is rejected with "Engine
\* crashed during initialization"; no request is left running.
C4_CrashedStep ==
    engineCrashed =>
        /\ sent' = sent
        /\ Len(cmds') <= Len(cmds)
        /\ \A r \in ReqIds :
               reqs[r].st = "queued" /\ reqs'[r].st # "queued" =>
                   reqs'[r].st = "rejected" /\ reqs'[r].err = ErrNotRunning
        /\ \A w \in InitIds :
               inits[w].st = "none" /\ inits'[w].st # "none" =>
                   inits'[w].st = "rejected" /\ inits'[w].err = ErrInitCrashed

\* On a crashed session no request is running, so none waits behind a task.
C4_NoneRunning == engineCrashed => \A r \in ReqIds : ~Running(r)

\* C4, as checked: a crashed session fails every call fast and sends nothing.
C4_CrashedFailsFast == []C4_NoneRunning /\ [][C4_CrashedStep]_vars

\* The drain timer of the first request crashed the session; the second
\* request, which waited in the queue or came later, was rejected.
C4_Witness ==
    /\ engineCrashed
    /\ reqs[1].err \in TimeoutErrors
    /\ reqs[2].err = ErrNotRunning

\* C5: once engineCrashed is true, no step sets it back to false.
C5_CrashedIsPermanent == [][engineCrashed => engineCrashed']_vars

\* A crashed session on which initialize() succeeded and waitForReady was
\* called afterwards.
C5_Witness ==
    /\ engineCrashed
    /\ engine
    /\ \E w \in InitIds : inits[w].err = ErrInitCrashed

\* C6: what a request resolves with was parsed from the lines of its own
\* search: the bestmove, the evaluation and every candidate record carry the
\* number of the request itself.
C6_OwnOutputOnly ==
    \A r \in ReqIds :
        reqs[r].st = "resolved" =>
            /\ reqs[r].result.bestMove = r
            /\ reqs[r].result.evaluation.value \in {0, r}
            /\ \A i \in 1..Len(reqs[r].result.moves) :
                   reqs[r].result.moves[i].score.value = r

\* An analysis resolved with a candidate after an earlier request timed out.
C6_Witness ==
    /\ reqs[1].err \in TimeoutErrors
    /\ reqs[2].st = "resolved"
    /\ reqs[2].kind = "analysis"
    /\ Len(reqs[2].result.moves) > 0

\* C7: the registry holds at most one handler of a search request.
C7_OneSearchHandler == Cardinality(SearchHandlers) <= 1

\* The second request's handler is registered, after the first one settled.
C7_Witness ==
    /\ Settled(reqs[1])
    /\ \E i \in SearchHandlers : messageHandlers[i][2] = 2

\* C8: a waitForReady handler and a search handler are never registered at
\* the same time.
C8_NoHandshakeDuringSearch ==
    ~(HandshakeHandlers # {} /\ SearchHandlers # {})

\* C9: a waitForReady called while another one is pending sends no "uci" of
\* its own.
C9_SecondCallSendsNoUci ==
    [][((\E w \in InitIds : inits[w].st = "pending") /\ nInit' = nInit + 1)
          => sent'["uci"] = sent["uci"]]_vars

\* C10: the handshake order.  The options are sent only after "uciok" was
\* received, which needs "uci" to have been sent; "isready" is sent only after
\* both options, and never ahead of them in the order of the commands; the
\* session is ready only after a "readyok" that answers an "isready".
C10_HandshakeOrder ==
    /\ (sent["Threads"] > 0 \/ sent["Hash"] > 0) => uciOk
    /\ uciOk => sent["uci"] > 0
    /\ sent["isready"] > 0 => sent["Threads"] > 0 /\ sent["Hash"] > 0
    /\ \A i, j \in 1..Len(cmds) :
           (i < j /\ cmds[i][1] = "isready" /\ cmds[j][1] = "setoption")
               => cmds[j][2] = "MultiPV"
    /\ readyokSeen => sent["isready"] > 0
    /\ engineReady =>
           readyokSeen /\ sent["Threads"] > 0 /\ sent["Hash"] > 0

C10_Witness == engineReady

\* C11: over the whole session each of "setoption name Threads" and
\* "setoption name Hash" is sent at most once, and exactly once as soon as a
\* handler has answered "uciok" (and so whenever the session is ready).
C11_OptionsOnce ==
    /\ sent["Threads"] = (IF optionsApplied THEN 1 ELSE 0)
    /\ sent["Hash"] = (IF optionsApplied THEN 1 ELSE 0)
    /\ sent["isready"] > 0 => optionsApplied
    /\ engineReady => sent["Threads"] = 1 /\ sent["Hash"] = 1

\* A handshake that timed out after its "uciok" and a retry that received
\* "uciok" again: two "isready", one pair of options.
C11_Witness ==
    /\ \E w \in InitIds : inits[w].err = ErrInitTimeout
    /\ sent["uci"] >= 2
    /\ sent["isready"] >= 2
    /\ sent["Threads"] = 1
    /\ sent["Hash"] = 1

\* C12, as claimed: no request is rejected for the handshake not having
\* completed; the handshake is made for it instead.
C12_NeverRejectedNotReady ==
    \A r \in ReqIds : reqs[r].err # ErrNotReady

\* C12, as amended: a request whose turn comes on an initialised, uncrashed
\* session that is not ready is rejected with "Engine not ready"; none of its
\* commands is sent, no handler is registered and no handshake is started.
C12_TurnNotReady(r) ==
    /\ reqs[r].st = "queued"
    /\ reqs'[r].st # "queued"
    /\ ~engineCrashed /\ engine /\ ~engineReady

C12_RejectedWhenNotReady ==
    [][\A r \in ReqIds :
          C12_TurnNotReady(r) =>
              /\ reqs'[r].st = "rejected"
              /\ reqs'[r].err = ErrNotReady
              /\ sent' = sent
              /\ cmds' = cmds
              /\ messageHandlers' = messageHandlers
              /\ inits' = inits
              /\ engineReady' = engineReady]_vars

\* A request was issued while a handshake was pending, and was rejected.
C12_Witness ==
    \E r \in ReqIds :
        /\ reqs[r].err = ErrNotReady
        /\ \E w \in InitIds : inits[w].st = "pending"

\* C13: a waitForReady rejected by its timer has the initialization-timeout
\* error and neither handler nor timer left, and the step that times it out
\* changes neither engineReady nor engineCrashed: a session that was not ready
\* and not crashed stays so.
C13_TimedOutIsClean ==
    \A w \in InitIds :
        inits[w].err = ErrInitTimeout =>
            /\ inits[w].st = "rejected"
            /\ ~inits[w].timer
            /\ InitHandler(w) \notin Range(messageHandlers)

C13_TimeoutStep ==
    \A w \in InitIds :
        (inits[w].err # ErrInitTimeout /\ inits'[w].err = ErrInitTimeout) =>
            /\ inits[w].st = "pending"
            /\ engineReady' = engineReady
            /\ engineCrashed' = engineCrashed
            /\ sent' = sent

\* C13, as checked: the state of a timed-out handshake and the step that
\* times it out.
C13_InitTimeoutRecoverable == []C13_TimedOutIsClean /\ [][C13_TimeoutStep]_vars

\* The first handshake timed out and a later waitForReady completed it.
C13_Witness ==
    /\ inits[1].err = ErrInitTimeout
    /\ inits[2].st = "resolved"
    /\ engineReady
    /\ ~engineCrashed

\* C14: a handshake does not stay pending on a crashed session: waitForReady
\* is rejected in the step that marks the session crashed.
C14_NoPendingHandshakeWhenCrashed ==
    engineCrashed => \A w \in InitIds : inits[w].st # "pending"

\* The deadline of request r, which is running and has its handler
\* registered, elapses in this step.
C15_DeadlineElapses(r) ==
    Running(r) /\ reqs[r].timeout /\ ~reqs[r].timedOut /\ reqs'[r].timedOut

\* The bestmove line of the search of request r reaches the listener.
BestmoveArrives(r) == search = r /\ search' # r

\* The drain timer of request r fires.
GraceExpires(r) ==
    /\ Running(r)
    /\ reqs[r].drainTimer
    /\ ~reqs'[r].drainTimer
    /\ ~BestmoveArrives(r)

\* C15: when the deadline of a running request elapses, "stop" is sent, the
\* drain timer is started and the promise stays pending; a request past its
\* deadline keeps its handler and its drain timer, and it settles only in a
\* step in which its bestmove line arrives or its drain timer fires.
C15_PendingInGrace ==
    \A r \in ReqIds :
        (Running(r) /\ reqs[r].timedOut) =>
            /\ reqs[r].drainTimer
            /\ ~reqs[r].timeout
            /\ ReqHandler(r) \in Range(messageHandlers)
            /\ sent["stop"] > 0

C15_DeadlineStep ==
    \A r \in ReqIds :
        /\ C15_DeadlineElapses(r) =>
               /\ sent'["stop"] = sent["stop"] + 1
               /\ reqs'[r].drainTimer
               /\ Running(r)'
        /\ (Running(r) /\ reqs[r].timedOut /\ ~Running(r)') =>
               \/ BestmoveArrives(r)
               \/ (reqs[r].drainTimer /\ engineCrashed')

\* C15, as checked: the state during the grace period and the steps into and
\* out of it.
C15_StopThenGrace == []C15_PendingInGrace /\ [][C15_DeadlineStep]_vars

\* A request past its deadline whose "stop" has not been answered yet.
C15_Witness ==
    \E r \in ReqIds :
        /\ Running(r)
        /\ reqs[r].timedOut
        /\ reqs[r].drainTimer
        /\ search = r
        /\ Len(cmds) > 0 /\ cmds[1][1] = "stop"

\* The bestmove line of request r arrives after its deadline has elapsed and
\* before its drain timer fires.
LateBestmove(r) == Running(r) /\ reqs[r].timedOut /\ BestmoveArrives(r)

C16_ResolvedInTime ==
    \A r \in ReqIds : reqs[r].st = "resolved" => ~reqs[r].timedOut

C16_BestmoveStep ==
    \A r \in ReqIds :
        /\ LateBestmove(r) =>
               /\ reqs'[r].st = "rejected"
               /\ reqs'[r].err = TimeoutError(reqs[r].kind)
        /\ (Running(r) /\ ~reqs[r].timedOut /\ BestmoveArrives(r)) =>
               /\ reqs'[r].st = "resolved"
               /\ reqs'[r].result.bestMove = r

\* C16: a bestmove line that arrives after the deadline of its request and
\* before the drain timer fires rejects the request with the timeout error of
\* its kind, for getBestMove and getAnalysis alike; one that arrives before
\* the deadline resolves it, and no resolved request was past its deadline.
C16_LateAnswerIsTimeout == []C16_ResolvedInTime /\ [][C16_BestmoveStep]_vars

\* A getBestMove and a getAnalysis were both rejected on a late bestmove line.
C16_Witness ==
    /\ ~engineCrashed
    /\ \E b, a \in ReqIds :
           /\ reqs[b].kind = "bestmove"
           /\ reqs[b].st = "rejected" /\ reqs[b].err = ErrResponseTimeout
           /\ reqs[a].kind = "analysis"
           /\ reqs[a].st = "rejected" /\ reqs[a].err = ErrAnalysisTimeout

\* Request r was rejected on a late bestmove line: the session is not crashed.
RejectedLate(r) ==
    /\ reqs[r].st = "rejected"
    /\ reqs[r].err \in TimeoutErrors
    /\ ~engineCrashed

C17_NothingLeft ==
    \A r \in ReqIds :
        RejectedLate(r) =>
            /\ ReqHandler(r) \notin Range(messageHandlers)
            /\ ~reqs[r].timeout
            /\ ~reqs[r].drainTimer
            /\ engineReady

C17_NextRuns ==
    \A r \in ReqIds :
        /\ LateBestmove(r) =>
               /\ engineCrashed' = engineCrashed
               /\ engineReady' = engineReady
        /\ \A q \in ReqIds :
               (/\ r < q
                /\ RejectedLate(r)
                /\ reqs[q].st = "queued"
                /\ reqs'[q].st # "queued") =>
                   /\ Running(q)'
                   /\ sent'["go"] = sent["go"] + 1

\* C17: a request rejected with the timeout error on a late bestmove line
\* leaves the session not crashed and ready, with no handler and no timer of
\* that request, and a later request that takes its turn then is started: its
\* commands are sent to the engine.
C17_UsableAfterLateAnswer == []C17_NothingLeft /\ [][C17_NextRuns]_vars

\* The request after one rejected on a late bestmove line has resolved.
C17_Witness ==
    \E r, q \in ReqIds :
        /\ r < q
        /\ RejectedLate(r)
        /\ reqs[r].timedOut
        /\ reqs[q].st = "resolved"

\* The errors that report a crashed session.
CrashedErrors == {ErrNotRunning, ErrInitCrashed}

C19_GraceExpiryTerminates ==
    [][\A r \in ReqIds : GraceExpires(r) => terminated']_vars

\* Request q, queued behind a request rejected with the timeout error, takes
\* its turn.
TurnAfterTimeout(q) ==
    /\ reqs[q].st = "queued"
    /\ reqs'[q].st # "queued"
    /\ \E r \in 1..(q - 1) :
           reqs[r].st = "rejected" /\ reqs[r].err \in TimeoutErrors

\* C20, as claimed: a request that takes its turn after a request was rejected
\* with the timeout error is run against the engine, whether the earlier one
\* was rejected by a late bestmove line or by its drain timer.
C20_UsableAfterGrace ==
    [][\A q \in ReqIds : TurnAfterTimeout(q) => Running(q)']_vars

C20_GraceStep ==
    \A r \in ReqIds :
        /\ C15_DeadlineElapses(r) => sent'["stop"] = sent["stop"] + 1
        /\ GraceExpires(r) =>
               /\ sent["stop"] > 0
               /\ reqs'[r].st = "rejected"
               /\ reqs'[r].err \in TimeoutErrors
        /\ (TurnAfterTimeout(r) /\ engineCrashed) =>
               /\ reqs'[r].st = "rejected"
               /\ reqs'[r].err = ErrNotRunning
               /\ sent' = sent

\* C20, as amended: when the engine never replies, "stop" is sent at the
\* deadline and the request is rejected with the timeout error when its drain
\* timer fires; the session is crashed from then on, and a request that takes
\* its turn afterwards is rejected with "Chess engine is not running" and
\* sends nothing.
C20_NeverRepliesThenCrashed == [][C20_GraceStep]_vars

\* A request was rejected by its drain timer and the next one was refused.
C20_Witness ==
    \E r, q \in ReqIds :
        /\ r < q
        /\ reqs[r].st = "rejected" /\ reqs[r].err \in TimeoutErrors
        /\ reqs[q].st = "rejected" /\ reqs[q].err = ErrNotRunning
        /\ sent["stop"] > 0
        /\ sent["go"] = 1

\* C21: a step that marks the session crashed while a search is in flight
\* rejects the in-flight request with the error of a crashed session.
C21_InFlightRejectedCrashed ==
    [][\A r \in ReqIds :
           (Running(r) /\ ~engineCrashed /\ engineCrashed') =>
               /\ reqs'[r].st = "rejected"
               /\ reqs'[r].err \in CrashedErrors]_vars

C22_Final ==
    \A r \in ReqIds :
        Settled(reqs[r]) =>
            /\ reqs'[r].st = reqs[r].st
            /\ reqs'[r].err = reqs[r].err
            /\ reqs'[r].result = reqs[r].result

C22_Once ==
    \A i, j \in 1..Len(settleOrder) : settleOrder[i] = settleOrder[j] => i = j

\* C22: the promise of a request settles at most once, and once it has
\* resolved or been rejected no step changes its state, its error or its
\* result.
C22_SettlesOnce == []C22_Once /\ [][C22_Final]_vars

\* A request has resolved and a later one was rejected after its deadline.
C22_Witness ==
    \E r, q \in ReqIds :
        /\ r < q
        /\ reqs[r].st = "resolved"
        /\ reqs[q].st = "rejected"
        /\ reqs[q].timedOut

\* C23: the handler of a settled getBestMove, getAnalysis or waitForReady is
\* not in the registry, so the listener does not call it with a later line.
C23_SettledHasNoHandler ==
    /\ \A r \in ReqIds :
           Settled(reqs[r]) => ReqHandler(r) \notin Range(messageHandlers)
    /\ \A w \in InitIds :
           Settled(inits[w]) => InitHandler(w) \notin Range(messageHandlers)

\* A handshake has resolved, another was rejected and a request has settled.
C23_Witness ==
    /\ \E w \in InitIds : inits[w].st = "resolved"
    /\ \E w \in InitIds : inits[w].st = "rejected"
    /\ \E r \in ReqIds : Settled(reqs[r])

\* One session with one handshake and up to MaxLiveReqs requests.
LiveBestMove == nReq < MaxLiveReqs /\ GetBestMoveCall

LiveAnalysis == nReq < MaxLiveReqs /\ GetAnalysisCall

NextLive ==
    \/ InitializeOk
    \/ InitializeFail
    \/ OneHandshake
    \/ LiveBestMove
    \/ LiveAnalysis
    \/ TerminateCall
    \/ RunNext
    \/ InitTimeout
    \/ Timeout
    \/ Drain
    \/ EngineCommand
    \/ EngineInfo
    \/ EngineBestmove

\* Timers that are set fire, and a callback of the promise queue that is due
\* is run: the event loop of the code's host.  Nothing is asked of the engine
\* or of the caller.
LiveSpec ==
    /\ Init
    /\ [][NextLive]_vars
    /\ WF_vars(RunNext)
    /\ WF_vars(Timeout)
    /\ WF_vars(Drain)

C24_NonePending ==
    \A r \in ReqIds : reqs[r].st \notin {"queued", "running"}

\* C24: whatever the engine does, when timers fire, there is time and again a
\* moment at which no request is queued or running.  A request that was
\* enqueued stays enqueued, so each one settles in the end: a queued one gets
\* its turn and a running one settles no later than its drain timer.
C24_EverySettles == []<>C24_NonePending

\* A request behind one that the engine never answered has had its turn.
C24_Witness ==
    \E r, q \in ReqIds :
        /\ r < q
        /\ search = r
        /\ reqs[r].st = "rejected" /\ reqs[r].timedOut
        /\ Settled(reqs[q])

\* Request r is a getAnalysis whose handler is registered.
Analysing(r) ==
    /\ Running(r)
    /\ reqs[r].kind = "analysis"
    /\ ReqHandler(r) \in Range(messageHandlers)

\* An info line reaches the listener in this step; received'.last tells how
\* it was made.
LineArrives == received'.odd # received.odd

\* The line has a move and a score with its value.
Complete(l) == l.withPv /\ l.scoreType \in {"cp", "mate"}

\* C25: an info line without a pv move, or without a "score cp" / "score mate"
\* value, that reaches a getAnalysis leaves its list of candidate records and
\* its tracked evaluation as they were.
C25_IncompleteLineIgnored ==
    [][\A r \in ReqIds :
           (Analysing(r) /\ LineArrives /\ ~Complete(received'.last)) =>
               /\ reqs'[r].moves = reqs[r].moves
               /\ reqs'[r].lastEvaluation = reqs[r].lastEvaluation]_vars

\* A line of rank 1 without a move or a score came last, and the record and
\* the evaluation of rank 1 are there.
C25_Witness ==
    \E r \in ReqIds :
        /\ Analysing(r)
        /\ received.odd
        /\ received.last.k = 1
        /\ ~Complete(received.last)
        /\ Len(reqs[r].moves) = MaxRank
        /\ reqs[r].lastEvaluation # NullScore

\* The records of rank k in a list of candidate records.
AtRank(moves, k) == {i \in 1..Len(moves) : moves[i].multipv = k}

\* C26, as claimed: an info line that lacks "multipv", a score or a pv move
\* creates no candidate record and overwrites none.
C26_NoRankIgnored ==
    [][\A r \in ReqIds :
           (/\ Analysing(r)
            /\ LineArrives
            /\ (received'.last.k = 0 \/ ~Complete(received'.last))) =>
               reqs'[r].moves = reqs[r].moves]_vars

\* C26, as amended: an info line that lacks a score or a pv move is ignored
\* whether or not it has "multipv"; one that has both and lacks "multipv" is a
\* line of rank 1: its record becomes the one record of rank 1, its score the
\* tracked evaluation, and the records of the other ranks stay.
C26_NoRankIsRankOne ==
    [][\A r \in ReqIds :
           (Analysing(r) /\ LineArrives /\ received'.last.k = 0) =>
               LET l == received'.last
                   old == reqs[r].moves
                   new == reqs'[r].moves
               IN  IF Complete(l)
                   THEN /\ \E i \in 1..Len(new) :
                               /\ AtRank(new, 1) = {i}
                               /\ new[i] = RecordOf(0, l.scoreType, r)
                        /\ reqs'[r].lastEvaluation =
                               [type |-> l.scoreType, value |-> r]
                        /\ \A k \in 2..MaxRank :
                               /\ AtRank(new, k) = AtRank(old, k)
                               /\ \A i \in AtRank(old, k) : new[i] = old[i]
                   ELSE /\ new = old
                        /\ reqs'[r].lastEvaluation = reqs[r].lastEvaluation]_vars

\* A line with a score and a move and without "multipv" came last, after a
\* line of another rank.
C26_Witness ==
    \E r \in ReqIds :
        /\ Analysing(r)
        /\ received.odd
        /\ received.last.k = 0
        /\ Complete(received.last)
        /\ Len(reqs[r].moves) = MaxRank

\* Request r is a getAnalysis that has resolved.
AnalysisResolved(r) == reqs[r].kind = "analysis" /\ reqs[r].st = "resolved"

\* The list holds, for every rank, the record of the last line with a score
\* and a move that was sent for that rank, once, and nothing else.
LastPerRank(moves) ==
    /\ \A i \in 1..Len(moves) : moves[i].multipv \in 1..MaxRank
    /\ \A k \in 1..MaxRank :
           IF received.byRank[k] = NullRecord
           THEN AtRank(moves, k) = {}
           ELSE \E i \in 1..Len(moves) :
                    /\ AtRank(moves, k) = {i}
                    /\ moves[i] = received.byRank[k]

\* C27: whatever info lines came before the bestmove line, the result of
\* getAnalysis holds for each rank that had a line with a score and a move
\* exactly the record of the last such line, and no other record; so does the
\* list of a getAnalysis that is still running.  A line without "multipv" is a
\* line of rank 1.
C27_LastRecordPerRank ==
    \A r \in ReqIds :
        /\ Analysing(r) => LastPerRank(reqs[r].moves)
        /\ AnalysisResolved(r) => LastPerRank(reqs[r].result.moves)

\* A getAnalysis resolved with a record of every rank, that of rank 1 from a
\* line scored in moves to mate and the last one from a line in centipawns.
C27_Witness ==
    \E r \in ReqIds :
        /\ AnalysisResolved(r)
        /\ Len(reqs[r].result.moves) = MaxRank
        /\ reqs[r].result.moves[1].score.type = "mate"
        /\ reqs[r].result.moves[MaxRank].score.type = "cp"

\* C28: the candidate list of a resolved getAnalysis is in ascending order of
\* rank without two entries of one rank, whatever info lines came before the
\* bestmove line.
C28_SortedNoDuplicates ==
    \A r \in ReqIds :
        AnalysisResolved(r) =>
            \A i, j \in 1..Len(reqs[r].result.moves) :
                i < j =>
                    reqs[r].result.moves[i].multipv
                        < reqs[r].result.moves[j].multipv

\* A getAnalysis resolved with a record of every rank, the last line received
\* being one of rank 1.
C28_Witness ==
    \E r \in ReqIds :
        /\ AnalysisResolved(r)
        /\ Len(reqs[r].result.moves) = MaxRank
        /\ received.last.k = 1
        /\ Complete(received.last)

\* C29: the ranks of the candidates of a resolved getAnalysis are 1..k, in
\* this order, for some k >= 0.
C29_RanksContiguous ==
    \A r \in ReqIds :
        AnalysisResolved(r) =>
            \A i \in 1..Len(reqs[r].result.moves) :
                reqs[r].result.moves[i].multipv = i

\* No info line with a score and a move was sent.
NoCompleteLine == \A k \in 1..MaxRank : received.byRank[k] = NullRecord

C30_ResultWithoutRecords ==
    \A r \in ReqIds :
        (reqs[r].st = "resolved" /\ NoCompleteLine) =>
            reqs[r].result =
                [bestMove |-> r, evaluation |-> NullScore, moves |-> <<>>]

C30_StillResolves ==
    \A r \in ReqIds :
        (/\ Running(r)
         /\ ~reqs[r].timedOut
         /\ BestmoveArrives(r)
         /\ NoCompleteLine) => reqs'[r].st = "resolved"

\* C30: a bestmove line that no info line with a score and a move came before
\* resolves a getAnalysis whose deadline has not elapsed, with the move of the
\* line, a null evaluation and an empty candidate list, and a getBestMove with
\* the move.
C30_ResolvesWithoutInfo ==
    []C30_ResultWithoutRecords /\ [][C30_StillResolves]_vars

\* A getAnalysis resolved after info lines none of which had both a score and
\* a move.
C30_Witness ==
    \E r \in ReqIds :
        /\ AnalysisResolved(r)
        /\ NoCompleteLine
        /\ received.odd

\* One session with one handshake and up to MaxLiveReqs requests, in which
\* getAnalysis asks for up to MaxPv + 1 moves.
WideAnalysis ==
    /\ ~MicrotaskPending
    /\ nReq < MaxLiveReqs
    /\ nReq' = nReq + 1
    /\ \E n \in 1..(MaxPv + 1) : Commit(enqueue(St, nReq + 1, "analysis", n))
    /\ UNCHANGED nInit

NextMultiPv ==
    \/ InitializeOk
    \/ OneHandshake
    \/ LiveBestMove
    \/ WideAnalysis
    \/ TerminateCall
    \/ RunNext
    \/ InitTimeout
    \/ Timeout
    \/ Drain
    \/ EngineCommand
    \/ EngineInfo
    \/ EngineBestmove

MultiPvSpec == Init /\ [][NextMultiPv]_vars

\* The value MultiPV has once the engine has executed the commands it was
\* sent.
RECURSIVE MultiPvAfter(_, _)
MultiPvAfter(queue, now) ==
    IF queue = <<>> THEN now
    ELSE MultiPvAfter(Tail(queue),
                      IF Head(queue)[1] = "setoption" /\ Head(queue)[2] = "MultiPV"
                      THEN Head(queue)[3] ELSE now)

C31_SinglePvSearch ==
    /\ (search # 0 /\ reqs[search].kind = "bestmove") => eMultiPV = 1
    /\ (~engineCrashed /\ \A r \in ReqIds : ~Running(r)) =>
           MultiPvAfter(cmds, eMultiPV) = 1

C31_ResetSent ==
    \A r \in ReqIds :
        (/\ Running(r)
         /\ reqs[r].kind = "analysis"
         /\ Settled(reqs'[r])
         /\ ~engineCrashed') =>
            /\ sent'["MultiPV"] = sent["MultiPV"] + 1
            /\ sent'["go"] = sent["go"]

\* C31: the step in which a getAnalysis settles on a session that is not
\* crashed sends "setoption name MultiPV value 1", before any command of the
\* next request; between requests MultiPV is, or is about to be, 1, and the
\* search of every getBestMove runs with MultiPV 1.
C31_MultiPvReset == []C31_SinglePvSearch /\ [][C31_ResetSent]_vars

\* The search of a getBestMove runs after a getAnalysis that asked for more
\* than one move.
C31_Witness ==
    \E a, b \in ReqIds :
        /\ a < b
        /\ reqs[a].kind = "analysis" /\ reqs[a].numMoves > 1
        /\ Settled(reqs[a])
        /\ reqs[b].kind = "bestmove"
        /\ search = b

C37_TimersCancelled ==
    \A r \in ReqIds :
        Settled(reqs[r]) => ~reqs[r].timeout /\ ~reqs[r].drainTimer

C37_OnlyRunningActs ==
    /\ sent'["stop"] # sent["stop"] =>
           \E r \in ReqIds : Running(r) /\ reqs[r].timeout /\ Running(r)'
    /\ (engine /\ ~engineCrashed /\ engineCrashed') =>
           \E r \in ReqIds : Running(r) /\ reqs[r].drainTimer

\* C37: a settled request has neither its deadline timer nor its drain timer
\* set; "stop" is sent only by the deadline of a request that is running, and
\* a session with an engine is marked crashed only by the drain timer of a
\* request that is running.
C37_SettledNeverActs == []C37_TimersCancelled /\ [][C37_OnlyRunningActs]_vars

\* A request resolved, after which a later request ran past its deadline.
C37_Witness ==
    \E r, q \in ReqIds :
        /\ r < q
        /\ reqs[r].st = "resolved"
        /\ reqs[q].timedOut
        /\ ~engineCrashed

\* One session whose binding may be one whose terminate() throws.
TerminateInit == \E throws \in BOOLEAN : Constructed(DefaultConfig, throws)

TerminateSpec == TerminateInit /\ [][NextLive]_vars

\* C32: no exception leaves terminate(), in whichever state of the session it
\* is called and whether or not the binding throws; and in every state
\* terminate() can be called in, a second call changes nothing of what the
\* first call left.
C32_TerminateNeverThrows ==
    /\ ~threw
    /\ ~terminate(St).threw
    /\ terminate(terminate(St)) = terminate(St)

\* terminate() was called while a search was in flight and the binding did
\* not throw.
C32_Witness ==
    /\ terminated
    /\ \E r \in ReqIds : Running(r)

\* One session constructed with options: each of threads, hashSize and depth
\* is the default or 0.
Configs ==
    [threads : {0, Threads}, hashSize : {0, Hash}, depth : {0, DEFAULT_DEPTH}]

ConfigInit == \E c \in Configs : Constructed(c, FALSE)

ConfigSpec == ConfigInit /\ [][NextLive]_vars

\* C33: no value below 1 of the thread count, the memory budget or the
\* default depth is passed to the engine in a "setoption" or "go depth"
\* command.
C33_OutOfRangeNeverSent == \A p \in configSent : p[2] >= 1

\* --------------------------------------------- GameHistory, called directly
AddMove ==
    \E move \in Moves, fen \in Fens :
        /\ Len(history.moves) < MaxMoves \/ canRedo(history)
        /\ history' = addMove(history, move, fen)
        /\ ret' = [NoRet EXCEPT !.op = "addMove", !.move = move, !.fen = fen,
                                !.discarded = Len(history.moves) + 1
                                              - Len(history'.moves)]
        /\ UNCHANGED <<engineVars, game, tracker>>

UndoCall ==
    /\ history' = undo(history).history
    /\ ret' = [NoRet EXCEPT !.op = "undo", !.value = undo(history).value]
    /\ UNCHANGED <<engineVars, game, tracker>>

RedoCall ==
    /\ history' = redo(history).history
    /\ ret' = [NoRet EXCEPT !.op = "redo", !.value = redo(history).value]
    /\ UNCHANGED <<engineVars, game, tracker>>

ClearCall ==
    /\ history' = clear(history)
    /\ ret' = [NoRet EXCEPT !.op = "clear", !.discarded = Len(history.moves)]
    /\ UNCHANGED <<engineVars, game, tracker>>

NextHistory ==
    \/ AddMove
    \/ UndoCall
    \/ RedoCall
    \/ ClearCall

HistorySpec == Init /\ [][NextHistory]_vars

\* ------------------------------------------------------------ GameManager
Gm == [game |-> game, history |-> history]

MakeMove ==
    \E moveString \in MoveStrings :
        /\ Len(history.moves) < MaxMoves \/ canRedo(history)
        /\ game' = makeMove(Gm, moveString).gm.game
        /\ history' = makeMove(Gm, moveString).gm.history
        /\ ret' = [NoRet EXCEPT !.op = "makeMove", !.move = moveString,
                                !.ok = makeMove(Gm, moveString).ok]
        /\ UNCHANGED <<engineVars, tracker>>

ManagerUndo ==
    /\ game' = managerUndo(Gm).gm.game
    /\ history' = managerUndo(Gm).gm.history
    /\ ret' = [NoRet EXCEPT !.op = "GameManager.undo", !.ok = managerUndo(Gm).ok]
    /\ UNCHANGED <<engineVars, tracker>>

ManagerRedo ==
    /\ game' = managerRedo(Gm).gm.game
    /\ history' = managerRedo(Gm).gm.history
    /\ ret' = [NoRet EXCEPT !.op = "GameManager.redo", !.ok = managerRedo(Gm).ok]
    /\ UNCHANGED <<engineVars, tracker>>

NextGame ==
    \/ MakeMove
    \/ ManagerUndo
    \/ ManagerRedo

GameSpec == Init /\ [][NextGame]_vars

\* ---------------------------------------------------------- OpeningTracker
Update ==
    \E detected \in Openings \cup {NoOpening}, ply \in 0..MaxPly :
        /\ tracker' = update(tracker, detected, ply).tracker
        /\ ret' = [NoRet EXCEPT !.op = "update", !.detected = detected,
                                !.ply = ply,
                                !.event = update(tracker, detected, ply).event,
                                !.before = ret.event]
        /\ UNCHANGED <<engineVars, history, game>>

TrackerSpec == Init /\ [][Update]_vars

\* ------------------------------------------------------ GameHistory claims
\* k undos, or k redos, one after the other: the history afterwards and the
\* values returned, in the order of the calls.
RECURSIVE UndoTimes(_, _)
UndoTimes(h, k) ==
    IF k = 0 THEN [history |-> h, values |-> <<>>]
    ELSE LET u == undo(h)
             rest == UndoTimes(u.history, k - 1)
         IN  [history |-> rest.history, values |-> <<u.value>> \o rest.values]

RECURSIVE RedoTimes(_, _)
RedoTimes(h, k) ==
    IF k = 0 THEN [history |-> h, values |-> <<>>]
    ELSE LET u == redo(h)
             rest == RedoTimes(u.history, k - 1)
         IN  [history |-> rest.history, values |-> <<u.value>> \o rest.values]

C34_RoundTrip ==
    \A k \in 0..(history.currentIndex + 1) :
        LET i == history.currentIndex + 1
            back == UndoTimes(history, k)
            forth == RedoTimes(back.history, k)
        IN  /\ forth.values = SubSeq(history.fens, i - k + 1, i)
            /\ forth.history = history
            /\ ~canRedo(history) => ~canRedo(forth.history)

C34_Returned ==
    /\ ret'.op = "undo" =>
           ret'.value = IF history.currentIndex >= 1
                        THEN history.fens[history.currentIndex]
                        ELSE NullFen
    /\ (ret'.op = "redo" /\ ~canRedo(history)) => ret'.value = NullFen

\* C34: undo returns the FEN recorded for the position before the move
\* undone, and null when that is the starting position or when nothing can be
\* undone; redo returns null when nothing can be redone; and, from every
\* history, k undos followed by k redos return the FENs recorded for the k
\* moves in their original order and leave the history as it was, with
\* canRedo() false if it was false.
C34_UndoRedoRoundTrip == []C34_RoundTrip /\ [][C34_Returned]_vars

\* A redo has returned the FEN of the last of two or more moves, which is not
\* the FEN of the first.
C34_Witness ==
    /\ ret.op = "redo"
    /\ Len(history.fens) >= 2
    /\ ~canRedo(history)
    /\ ret.value = history.fens[Len(history.fens)]
    /\ history.fens[1] # history.fens[2]

\* C39: addMove called when there are undone moves leaves the entries up to
\* the current index as they were, drops the others and appends the new move
\* and FEN as the last entry, which becomes the current one; canRedo() is
\* false afterwards.
C39_AddMoveDiscardsUndone ==
    [][(ret'.op = "addMove" /\ canRedo(history)) =>
          LET i == history.currentIndex + 1
          IN  /\ Len(history'.moves) = i + 1
              /\ Len(history'.fens) = i + 1
              /\ history'.moves[i + 1] = ret'.move
              /\ history'.fens[i + 1] = ret'.fen
              /\ history'.currentIndex = i
              /\ ~canRedo(history')
              /\ SubSeq(history'.moves, 1, i) = SubSeq(history.moves, 1, i)
              /\ SubSeq(history'.fens, 1, i) = SubSeq(history.fens, 1, i)]_vars

\* addMove discarded two undone moves and kept one.
C39_Witness ==
    /\ ret.op = "addMove"
    /\ ret.discarded = 2
    /\ Len(history.moves) = 2

\* C40: the moves and fens lists have the same length, currentIndex is from
\* -1 to that length less one, canUndo() is true exactly when currentIndex is
\* at least 0 and canRedo() exactly when it is below the length less one.
C40_HistoryInvariant ==
    /\ Len(history.moves) = Len(history.fens)
    /\ -1 <= history.currentIndex
    /\ history.currentIndex <= Len(history.moves) - 1
    /\ canUndo(history) <=> history.currentIndex >= 0
    /\ canRedo(history) <=> history.currentIndex < Len(history.moves) - 1

\* clear() was called on a history of two moves or more.
C40_Witness ==
    /\ ret.op = "clear"
    /\ ret.discarded >= 2

\* ------------------------------------------------------ GameManager claims
\* C35: the position on the board is the FEN recorded at the current index
\* of the history, or the starting position when the current index is -1.
C35_BoardIsHistoryPosition ==
    game = IF history.currentIndex = -1 THEN StartingFen
           ELSE history.fens[history.currentIndex + 1]

\* Every move of a game of two moves was undone.
C35_Witness ==
    /\ ret.op = "GameManager.undo"
    /\ ret.ok
    /\ Len(history.moves) = 2
    /\ history.currentIndex = -1

\* C38: GameManager.undo() returns true exactly when there was a move to
\* undo, and when there was none it leaves the board and the history as they
\* were.
C38_UndoTrueOnlyIfUndone ==
    [][ret'.op = "GameManager.undo" =>
          /\ ret'.ok <=> canUndo(history)
          /\ ~canUndo(history) => game' = game /\ history' = history]_vars

\* --------------------------------------------------- OpeningTracker claims
\* C36: update returns "detected" exactly when an opening is detected and
\* none was current, "refined" exactly when one is detected whose id is not
\* the current one's, "left_line" exactly when none is detected and one was
\* current, and "unchanged" otherwise; with "left_line" the status becomes
\* "out_of_book" and lastKnownOpening the opening that was current; and the
\* update after a "left_line" that detects an opening returns "detected".
C36_Classified ==
    [][ret'.op = "update" =>
          LET current == tracker.currentOpening
              detected == ret'.detected
              event == ret'.event
          IN  /\ event \in {"detected", "refined", "left_line", "unchanged"}
              /\ event = "detected" <=>
                     (detected # NoOpening /\ current = NoOpening)
              /\ event = "refined" <=>
                     (detected # NoOpening /\ current # NoOpening
                                           /\ current # detected)
              /\ event = "left_line" <=>
                     (detected = NoOpening /\ current # NoOpening)
              /\ event = "left_line" =>
                     /\ tracker'.status = "out_of_book"
                     /\ tracker'.lastKnownOpening = current
                     /\ tracker'.currentOpening = NoOpening
              /\ (ret.event = "left_line" /\ detected # NoOpening) =>
                     event = "detected"]_vars

\* The update after a "left_line" has detected an opening.
C36_Witness ==
    /\ ret.event = "detected"
    /\ ret.before = "left_line"
    /\ tracker.status = "known"

====
